---- MODULE Spec2Model ----
(***************************************************************************)
(* TankSplit (src/src/App.jsx): the text-to-rows parser, the React state   *)
(* of App with its handlers, the asynchronous OCR operation, and the       *)
(* values App derives on every render (totalKm, computed, summary).        *)
(*                                                                         *)
(* Strings are sequences of one-character strings.  Money is kept in whole *)
(* cents and percentages in hundredths of a percent, in exact arithmetic;  *)
(* round2 is then Math.round of an exact quotient.  Kilometres are         *)
(* integers (the number input can also yield fractions; those are not      *)
(* modelled).                                                              *)
(*                                                                         *)
(* Left out: workerRef (written, never read), copyTikkieText and the       *)
(* "Maak Tikkie" button (they read the derived values and change no        *)
(* state), and the early returns of handleFile and handlePasteImage when   *)
(* there is no file or no image item (no state changes).                   *)
(***************************************************************************)
EXTENDS Integers, Sequences, FiniteSets

VARIABLES
    rows,       \* useState([])    : sequence of [name, km]
    amount,     \* useState(50.0)  : total amount, in cents
    ocrText,    \* useState("")    : content of the raw-text textarea
    imageSrc,   \* useState(null)  : "null" or "blob" (an object URL)
    loading,    \* useState(false)
    progress,   \* useState(0)
    ops,        \* the doOCR calls that have not settled yet, in start order
    alert       \* the message the last handler passed to alert(), "" if none

vars == <<rows, amount, ocrText, imageSrc, loading, progress, ops, alert>>

(***************************************************************************)
(* Bounds of the model.                                                    *)
(***************************************************************************)
MaxRows  == 3      \* addEmptyRow is offered while fewer rows than this
MaxOps   == 2      \* doOCR calls in flight at the same time
MaxLines == 2      \* lines of a generated well-formed parser input

(***************************************************************************)
(* Characters.                                                             *)
(***************************************************************************)
NL == "\n"
CR == "\r"
TAB == "\t"

LetterChars ==
    {"A","B","C","D","E","F","G","H","I","J","K","L","M",
     "N","O","P","Q","R","S","T","U","V","W","X","Y","Z",
     "a","b","c","d","e","f","g","h","i","j","k","l","m",
     "n","o","p","q","r","s","t","u","v","w","x","y","z"}

DigitSeq == <<"0","1","2","3","4","5","6","7","8","9">>

\* \d
DigitChars == {DigitSeq[i] : i \in 1..10}

\* \s (the members that occur in the model's texts)
WsChars == {" ", TAB, CR, NL}

\* [A-Za-zÀ-ÿ0-9_\- ] (the ASCII members)
NameChars == LetterChars \cup DigitChars \cup {"_", "-", " "}

\* [:\-]
SepChars == {":", "-"}

NameMin   == 2     \* {2,30}
NameMax   == 30    \* {2,30}
DigitsMax == 6     \* \d{1,6}

Min(a, b) == IF a < b THEN a ELSE b

SetMax(S) == CHOOSE x \in S : \A y \in S : y <= x

SetMin(S) == CHOOSE x \in S : \A y \in S : x <= y

\* parseInt(c, 10) of one digit character
DigitVal(c) == (CHOOSE i \in 1..10 : DigitSeq[i] = c) - 1

\* parseInt(s, 10) of a non-empty run of digits
RECURSIVE ParseInt(_)
ParseInt(s) ==
    IF Len(s) = 0 THEN 0
    ELSE 10 * ParseInt(SubSeq(s, 1, Len(s) - 1)) + DigitVal(s[Len(s)])

\* String(n) of a natural number
RECURSIVE DecStr(_)
DecStr(n) ==
    IF n < 10 THEN <<DigitSeq[n + 1]>>
    ELSE DecStr(n \div 10) \o <<DigitSeq[(n % 10) + 1]>>

\* s.trim()
Trim(s) ==
    LET keep == {i \in 1..Len(s) : s[i] \notin WsChars}
    IN  IF keep = {} THEN <<>> ELSE SubSeq(s, SetMin(keep), SetMax(keep))

\* text.split(/\r?\n/)
RECURSIVE SplitLines(_)
SplitLines(t) ==
    LET brk == {i \in 1..Len(t) : t[i] = NL}
    IN  IF brk = {} THEN <<t>>
        ELSE LET i    == SetMin(brk)
                 last == IF i > 1 /\ t[i - 1] = CR THEN i - 2 ELSE i - 1
             IN  <<SubSeq(t, 1, last)>> \o SplitLines(SubSeq(t, i + 1, Len(t)))

\* line.split(/\s+/) of a trimmed, non-empty line
RECURSIVE SplitTokens(_)
SplitTokens(l) ==
    LET ws == {i \in 1..Len(l) : l[i] \in WsChars}
    IN  IF ws = {} THEN <<l>>
        ELSE LET i == SetMin(ws)
             IN  <<SubSeq(l, 1, i - 1)>> \o SplitTokens(Trim(SubSeq(l, i, Len(l))))

\* the longest run of characters of class S that starts at position p
RunLen(l, p, S) ==
    SetMax({k \in 0..(Len(l) + 1 - p) : \A j \in 0..(k - 1) : l[p + j] \in S})

(***************************************************************************)
(* nameKmRegex, by the backtracking semantics of line.match: an attempt    *)
(* <<s, a, k1, sep, k2>> starts at s, gives the name class a characters,   *)
(* the first \s* k1, [:\-]? sep and the second \s* k2 characters, and      *)
(* succeeds when a digit follows ((?:\s*km)? can match empty).  The match  *)
(* is the first successful attempt: leftmost start, then every quantifier  *)
(* as long as possible, the earlier quantifier first.                      *)
(***************************************************************************)
Attempts(l) ==
    UNION { UNION { UNION { UNION {
        { <<s, a, k1, sep, k2>> :
            k2 \in {k \in 0..RunLen(l, s + a + k1 + sep, WsChars) :
                      /\ s + a + k1 + sep + k <= Len(l)
                      /\ l[s + a + k1 + sep + k] \in DigitChars} }
        : sep \in {x \in {0, 1} :
                     x = 1 => /\ s + a + k1 <= Len(l)
                              /\ l[s + a + k1] \in SepChars} }
        : k1 \in 0..RunLen(l, s + a, WsChars) }
        : a \in NameMin..Min(NameMax, RunLen(l, s, NameChars)) }
        : s \in 1..Len(l) }

Before(t, u) ==
    \/ t = u
    \/ \E i \in 1..5 :
         /\ \A j \in 1..(i - 1) : t[j] = u[j]
         /\ IF i = 1 THEN t[i] < u[i] ELSE t[i] > u[i]

\* the first of the successful attempts A
FirstMatch(A) == CHOOSE t \in A : \A u \in A : Before(t, u)

\* m[1] of the match t
Group1(l, t) == SubSeq(l, t[1], t[1] + t[2] - 1)

\* m[2] of the match t: \d{1,6}, as many digits as there are, up to six
Group2(l, t) ==
    LET p == t[1] + t[2] + t[3] + t[4] + t[5]
    IN  SubSeq(l, p, p + Min(DigitsMax, RunLen(l, p, DigitChars)) - 1)

IsDigit(c) == c \in DigitChars

\* the else branch of the loop body: token pairs of one line
RECURSIVE TokenPairs(_, _)
TokenPairs(tokens, i) ==
    IF i >= Len(tokens) THEN <<>>
    ELSE LET maybeName == tokens[i]
             maybeKm   == SelectSeq(tokens[i + 1], IsDigit)
         IN  (IF maybeKm # <<>>
              THEN <<[name |-> maybeName, km |-> ParseInt(maybeKm)]>>
              ELSE <<>>)
             \o TokenPairs(tokens, i + 2)

\* the body of `for (const line of lines)`
LinePairs(line) ==
    LET A == Attempts(line)
    IN  IF A # {}
        THEN LET m == FirstMatch(A)
             IN  <<[name |-> Trim(Group1(line, m)), km |-> ParseInt(Group2(line, m))]>>
        ELSE TokenPairs(SplitTokens(line), 1)

RECURSIVE ConcatPairs(_)
ConcatPairs(lines) ==
    IF lines = <<>> THEN <<>>
    ELSE LinePairs(Head(lines)) \o ConcatPairs(Tail(lines))

NonEmpty(l) == l # <<>>

TrimAll(ls) == [i \in 1..Len(ls) |-> Trim(ls[i])]

parseLinesToPairs(text) ==
    ConcatPairs(SelectSeq(TrimAll(SplitLines(text)), NonEmpty))

(***************************************************************************)
(* Inputs of the handlers: what the user types, what the OCR provider      *)
(* returns.                                                                *)
(***************************************************************************)
Str_Unparsable == <<"#">>

\* "Persoon 1: 3 km" and "A 1" on two lines
Str_TwoLines ==
    <<"P","e","r","s","o","o","n"," ","1",":"," ","3"," ","k","m", NL,
      "A"," ","1">>

\* values of the textarea's onChange
Texts == {<<>>, Str_Unparsable, Str_TwoLines}

\* values of data.text
OcrTexts == Texts

\* parseLinesToPairs, evaluated once for the texts above
ParseTable == [t \in Texts |-> parseLinesToPairs(t)]

Parsed(t) == IF t \in Texts THEN ParseTable[t] ELSE parseLinesToPairs(t)

\* values of the name input's onChange
NameInputs == {<<"A">>}

\* values of Number(e.target.value)||0 of a km input
KmInputs == {-1, 0, 1, 3}

\* values of Number(e.target.value)||0 of the amount input, in cents
AmountInputs == {-100, 0, 1}

\* values of Math.round(m.progress * 100) the logger reports
ProgressInputs == {50}

InitialAmount == 5000    \* useState(50.0)

AlertOcrFailed == "OCR mislukt"

AlertNoRows == "Kon geen regels vinden"

(***************************************************************************)
(* What App derives on every render.                                       *)
(***************************************************************************)
Abs(x) == IF x < 0 THEN 0 - x ELSE x

\* round2 that keeps one decimal: Math.round(x * 10) / 10
round2_OneDecimal(num, den) == 10 * ((2 * num + 10 * den) \div (20 * den))

\* round2 of the exact quotient num/den (den > 0), the quotient and the
\* result both in hundredths: Math.round((x + Number.EPSILON) * 100)
round2(num, den) == (2 * num + den) \div (2 * den)

RECURSIVE SumKm(_)
SumKm(rs) == IF rs = <<>> THEN 0 ELSE Head(rs).km + SumKm(Tail(rs))

totalKm == SumKm(rows)

\* euros of one row, in cents
Euros(km) == IF totalKm > 0 THEN round2(amount * km, totalKm) ELSE round2(0, 1)

\* pct of one row, in hundredths of a percent
Pct(km) == IF totalKm > 0 THEN round2(10000 * km, totalKm) ELSE round2(0, 1)

computed ==
    [i \in 1..Len(rows) |->
        [name |-> rows[i].name, km |-> rows[i].km,
         pct |-> Pct(rows[i].km), euros |-> Euros(rows[i].km)]]

NoName == <<>>

Directive(k, payer, payee, amt) ==
    [kind |-> k, payer |-> payer, payee |-> payee, amount |-> amt]

\* the two-row branch with payer and payee the other way round
PairSummary_Swapped(a, b) ==
    LET diff == round2(Abs(a.euros - b.euros), 1)
    IN  IF diff = 0 THEN Directive("NoPaymentNeeded", NoName, NoName, 0)
        ELSE IF a.euros > b.euros
             THEN Directive("PayFromTo", a.name, b.name, round2(a.euros - b.euros, 1))
             ELSE Directive("PayFromTo", b.name, a.name, round2(b.euros - a.euros, 1))

\* the two-row branch of summary
PairSummary(a, b) ==
    LET diff == round2(Abs(a.euros - b.euros), 1)
    IN  IF diff = 0 THEN Directive("NoPaymentNeeded", NoName, NoName, 0)
        ELSE IF a.euros > b.euros
             THEN Directive("PayFromTo", b.name, a.name, round2(a.euros - b.euros, 1))
             ELSE Directive("PayFromTo", a.name, b.name, round2(b.euros - a.euros, 1))

\* summary that asks for input only when there are no rows
summary_NoRows ==
    IF Len(rows) = 2 /\ totalKm > 0
    THEN PairSummary(computed[1], computed[2])
    ELSE IF Len(rows) = 0
         THEN Directive("AwaitInput", NoName, NoName, 0)
         ELSE Directive("GenericAdvice", NoName, NoName, 0)

\* summary that takes the two-row branch for two or more rows
summary_TwoOrMore ==
    IF Len(rows) >= 2 /\ totalKm > 0
    THEN PairSummary(computed[1], computed[2])
    ELSE IF totalKm = 0
         THEN Directive("AwaitInput", NoName, NoName, 0)
         ELSE Directive("GenericAdvice", NoName, NoName, 0)

summary ==
    IF Len(rows) = 2 /\ totalKm > 0
    THEN PairSummary(computed[1], computed[2])
    ELSE IF totalKm = 0
         THEN Directive("AwaitInput", NoName, NoName, 0)
         ELSE Directive("GenericAdvice", NoName, NoName, 0)

(***************************************************************************)
(* The handlers.                                                           *)
(***************************************************************************)
Init ==
    /\ rows = <<>>
    /\ amount = InitialAmount
    /\ ocrText = <<>>
    /\ imageSrc = "null"
    /\ loading = FALSE
    /\ progress = 0
    /\ ops = <<>>
    /\ alert = ""

RemoveAt(s, i) == SubSeq(s, 1, i - 1) \o SubSeq(s, i + 1, Len(s))

PersoonName(n) == <<"P","e","r","s","o","o","n"," ">> \o DecStr(n)

addEmptyRow ==
    /\ Len(rows) < MaxRows
    /\ rows' = Append(rows, [name |-> PersoonName(Len(rows) + 1), km |-> 0])
    /\ alert' = ""
    /\ UNCHANGED <<amount, ocrText, imageSrc, loading, progress, ops>>

updateRow(i, key, value) ==
    /\ i \in 1..Len(rows)
    /\ rows' = [rows EXCEPT ![i] = IF key = "km" THEN [@ EXCEPT !.km = value]
                                                 ELSE [@ EXCEPT !.name = value]]
    /\ alert' = ""
    /\ UNCHANGED <<amount, ocrText, imageSrc, loading, progress, ops>>

removeRow(i) ==
    /\ i \in 1..Len(rows)
    /\ rows' = RemoveAt(rows, i)
    /\ alert' = ""
    /\ UNCHANGED <<amount, ocrText, imageSrc, loading, progress, ops>>

\* onChange of the amount input
setAmount(v) ==
    /\ amount' = v
    /\ alert' = ""
    /\ UNCHANGED <<rows, ocrText, imageSrc, loading, progress, ops>>

\* onClick of Reset
Reset ==
    /\ rows' = <<>>
    /\ ocrText' = <<>>
    /\ imageSrc' = "null"
    /\ alert' = ""
    /\ UNCHANGED <<amount, loading, progress, ops>>

\* onChange of the textarea
setOcrText(t) ==
    /\ ocrText' = t
    /\ alert' = ""
    /\ UNCHANGED <<rows, amount, imageSrc, loading, progress, ops>>

\* onClick of "Parse tekst naar regels"
ParseClick ==
    LET parsed == Parsed(ocrText)
    IN  /\ IF Len(parsed) = 0
           THEN alert' = AlertNoRows /\ rows' = rows
           ELSE alert' = "" /\ rows' = parsed
        /\ UNCHANGED <<amount, ocrText, imageSrc, loading, progress, ops>>

(***************************************************************************)
(* doOCR.  A call runs to its first await inside the handler that starts   *)
(* it; every later step is the continuation of one await.  pc names the    *)
(* await the call is suspended at.                                         *)
(***************************************************************************)
NextAwait(pc) ==
    CASE pc = "load"         -> "loadLanguage"
      [] pc = "loadLanguage" -> "initialize"
      [] pc = "initialize"   -> "recognize"

\* doOCR(file) up to `await worker.load()`
StartOCR(src) ==
    /\ Len(ops) < MaxOps
    /\ imageSrc' = "blob"
    /\ loading' = TRUE
    /\ progress' = 0
    /\ ops' = Append(ops, [src |-> src, pc |-> "load"])
    /\ alert' = ""
    /\ UNCHANGED <<rows, amount, ocrText>>

handleFile == StartOCR("file")

handlePasteImage == StartOCR("paste")

\* worker.load(), loadLanguage() or initialize() resolves
OcrAwaitResolved(o) ==
    /\ o \in 1..Len(ops)
    /\ ops[o].pc \in {"load", "loadLanguage", "initialize"}
    /\ ops' = [ops EXCEPT ![o].pc = NextAwait(@)]
    /\ alert' = ""
    /\ UNCHANGED <<rows, amount, ocrText, imageSrc, loading, progress>>

\* the logger callback during recognition
OcrProgress(o, p) ==
    /\ o \in 1..Len(ops)
    /\ ops[o].pc = "recognize"
    /\ progress' = p
    /\ alert' = ""
    /\ UNCHANGED <<rows, amount, ocrText, imageSrc, loading, ops>>

\* worker.recognize(file) resolves with data.text = t
OcrRecognized(o, t) ==
    /\ o \in 1..Len(ops)
    /\ ops[o].pc = "recognize"
    /\ ocrText' = t
    /\ LET parsed == Parsed(t)
       IN  rows' = IF Len(parsed) > 0 THEN parsed ELSE rows
    /\ loading' = FALSE
    /\ progress' = 100
    /\ ops' = [ops EXCEPT ![o].pc = "terminate"]
    /\ alert' = ""
    /\ UNCHANGED <<amount, imageSrc>>

\* worker.terminate() resolves
OcrTerminated(o) ==
    /\ o \in 1..Len(ops)
    /\ ops[o].pc = "terminate"
    /\ ops' = RemoveAt(ops, o)
    /\ alert' = ""
    /\ UNCHANGED <<rows, amount, ocrText, imageSrc, loading, progress>>

\* the .catch callback of the handler that started the call
CatchAlert(src) == IF src = "file" THEN AlertOcrFailed ELSE ""

\* the await the call is suspended at rejects
OcrRejected(o) ==
    /\ o \in 1..Len(ops)
    /\ loading' = FALSE
    /\ alert' = CatchAlert(ops[o].src)
    /\ ops' = RemoveAt(ops, o)
    /\ UNCHANGED <<rows, amount, ocrText, imageSrc, progress>>

\* the table editor and the amount input
RowNext ==
    \/ addEmptyRow
    \/ \E i \in 1..Len(rows), v \in NameInputs : updateRow(i, "name", v)
    \/ \E i \in 1..Len(rows), v \in KmInputs : updateRow(i, "km", v)
    \/ \E i \in 1..Len(rows) : removeRow(i)
    \/ \E v \in AmountInputs : setAmount(v)

\* the textarea, its parse button and Reset
TextNext ==
    \/ Reset
    \/ \E t \in Texts : setOcrText(t)
    \/ ParseClick

OcrNext ==
    \/ handleFile
    \/ handlePasteImage
    \/ \E o \in 1..Len(ops) : OcrAwaitResolved(o)
    \/ \E o \in 1..Len(ops), p \in ProgressInputs : OcrProgress(o, p)
    \/ \E o \in 1..Len(ops), t \in OcrTexts : OcrRecognized(o, t)
    \/ \E o \in 1..Len(ops) : OcrTerminated(o)
    \/ \E o \in 1..Len(ops) : OcrRejected(o)

Next == RowNext \/ TextNext \/ OcrNext

\* the whole component
Spec == Init /\ [][Next]_vars

(***************************************************************************)
(* The component without image input.  rows and amount take the same       *)
(* values as under Spec: an OCR call writes rows only as                   *)
(* parseLinesToPairs(t) for a text t of OcrTexts = Texts, which            *)
(* setOcrText(t) followed by ParseClick writes too, and totalKm, computed  *)
(* and summary read rows and amount alone.  Spec itself has 15,272,240     *)
(* states with the inputs above.                                           *)
(***************************************************************************)
EditSpec == Init /\ [][RowNext \/ TextNext]_vars

\* the component without the table editor and the amount input
OcrSpec == Init /\ [][TextNext \/ OcrNext]_vars

(***************************************************************************)
(* parseLinesToPairs as a function of its input: the textarea holds one of *)
(* the inputs below and the parse button is clicked.                       *)
(***************************************************************************)
Str_Jan == <<"J","a","n">>

Str_Pieter == <<"P","i","e","t","e","r">>

Str_Anna == <<"A","n","n","a">>

WFNames == {Str_Jan, Str_Pieter, Str_Anna}

\* " ", ": ", " - "
WFSeps == {<<" ">>, <<":"," ">>, <<" ","-"," ">>}

WFDigits == {<<"1","5","0">>, <<"1","0","0">>, <<"7","5">>}

\* "", " km"
WFUnits == {<<>>, <<" ","k","m">>}

\* one line <name> [':' or '-'] <digits> ['km']
WFLines == [name : WFNames, sep : WFSeps, digits : WFDigits, unit : WFUnits]

FormatLine(w) == w.name \o w.sep \o w.digits \o w.unit

RECURSIVE JoinWith(_, _)
JoinWith(ls, c) ==
    IF Len(ls) = 1 THEN Head(ls)
    ELSE Head(ls) \o <<c>> \o JoinWith(Tail(ls), c)

WFCases == UNION {[1..n -> WFLines] : n \in 1..MaxLines}

WFText(c) == JoinWith([i \in 1..Len(c) |-> FormatLine(c[i])], NL)

\* the records the lines of c stand for
WFRecords(c) ==
    [i \in 1..Len(c) |-> [name |-> c[i].name, km |-> ParseInt(c[i].digits)]]

WFTable == {<<WFText(c), WFRecords(c)>> : c \in WFCases}

\* one line of tokens name number name number
TokenCases == [1..2 -> [name : WFNames, digits : WFDigits]]

TokenText(c) ==
    JoinWith([i \in 1..4 |-> IF i % 2 = 1 THEN c[(i + 1) \div 2].name
                                          ELSE c[i \div 2].digits], " ")

TokenRecords(c) ==
    [i \in 1..2 |-> [name |-> c[i].name, km |-> ParseInt(c[i].digits)]]

TokenTable == {<<TokenText(c), TokenRecords(c)>> : c \in TokenCases}

ParseInputs ==
    {e[1] : e \in WFTable} \cup {e[1] : e \in TokenTable} \cup Texts

ParseInit ==
    /\ ocrText \in ParseInputs
    /\ rows = <<>>
    /\ amount = InitialAmount
    /\ imageSrc = "null"
    /\ loading = FALSE
    /\ progress = 0
    /\ ops = <<>>
    /\ alert = ""

ParseSpec == ParseInit /\ [][ParseClick]_vars

\* under ParseSpec: the parse button has been clicked
ParseDone == rows # <<>> \/ alert = AlertNoRows

(***************************************************************************)
(* Properties.                                                             *)
(***************************************************************************)

\* C1: for every text whose lines all have the form
\* <name> [':' or '-'] <1-6 digits> ['km'], parseLinesToPairs returns one
\* record per line, in line order, with exactly that name and the value of
\* the whole digit run ("Jan 150" -> (Jan, 150), "Anna - 75" -> (Anna, 75)).
C1_WellFormedLinesParsed ==
    ParseDone => \A e \in WFTable : ocrText = e[1] => rows = e[2]

\* C2: one line of whitespace-separated tokens name number name number is
\* parsed into one record per (name, number) pair, in pairing order
\* ("Jan 150 Pieter 100" -> (Jan, 150), (Pieter, 100)).
C2_TokenPairsParsed ==
    ParseDone => \A e \in TokenTable : ocrText = e[1] => rows = e[2]

SmallerFirst(i, j) == computed[i].euros < computed[j].euros

\* C3 as stated: with exactly two rows and totalKm > 0, a rounded difference
\* of 0 gives NoPaymentNeeded; otherwise the row with the smaller amount
\* pays the row with the larger amount, which is the row with the higher
\* distance, the absolute difference of the two amounts.
C3_PayeeHasHigherDistance ==
    (Len(rows) = 2 /\ totalKm > 0) =>
        LET diff == Abs(computed[1].euros - computed[2].euros)
        IN  /\ diff = 0 => summary.kind = "NoPaymentNeeded"
            /\ diff # 0 =>
                 \E lo, hi \in {1, 2} :
                    /\ SmallerFirst(lo, hi)
                    /\ summary = Directive("PayFromTo", rows[lo].name,
                                           rows[hi].name, diff)
                    /\ rows[hi].km > rows[lo].km

\* C3 amended: as above, but the payee is the row with the higher distance
\* when the total amount is positive, and the row with the lower distance
\* when it is negative.
C3_TwoRowSettlement ==
    (Len(rows) = 2 /\ totalKm > 0) =>
        LET diff == Abs(computed[1].euros - computed[2].euros)
        IN  /\ diff = 0 => summary.kind = "NoPaymentNeeded"
            /\ diff # 0 =>
                 \E lo, hi \in {1, 2} :
                    /\ SmallerFirst(lo, hi)
                    /\ summary = Directive("PayFromTo", rows[lo].name,
                                           rows[hi].name, diff)
                    /\ amount > 0 => rows[hi].km > rows[lo].km
                    /\ amount < 0 => rows[hi].km < rows[lo].km

\* two differently named rows, the second with the larger share of a
\* positive amount: the first row pays the second
C3_Witness ==
    /\ Len(rows) = 2
    /\ totalKm > 0
    /\ amount > 0
    /\ rows[1].name # rows[2].name
    /\ rows[1].km < rows[2].km
    /\ summary.kind = "PayFromTo"
    /\ summary.payer = rows[1].name

\* C4: whenever the rows' distances sum to 0, every computed percentage and
\* amount is 0 and the directive is AwaitInput.
C4_ZeroDistance ==
    totalKm = 0 =>
        /\ \A i \in 1..Len(rows) : computed[i].pct = 0 /\ computed[i].euros = 0
        /\ summary.kind = "AwaitInput"

\* two rows, both with distance 0, and a non-zero amount to split
C4_Witness ==
    /\ Len(rows) = 2
    /\ \A i \in 1..2 : rows[i].km = 0
    /\ amount # 0
    /\ summary.kind = "AwaitInput"

\* C5: PayFromTo only with exactly two rows and totalKm > 0; any other row
\* count with totalKm > 0 gives GenericAdvice; the directive is always one
\* of the four.
C5_DirectiveKinds ==
    /\ summary.kind \in {"NoPaymentNeeded", "PayFromTo", "AwaitInput", "GenericAdvice"}
    /\ summary.kind = "PayFromTo" => Len(rows) = 2 /\ totalKm > 0
    /\ (Len(rows) # 2 /\ totalKm > 0) => summary.kind = "GenericAdvice"

\* three rows with different amounts
C5_Witness ==
    /\ Len(rows) = 3
    /\ totalKm > 0
    /\ computed[1].euros # computed[2].euros
    /\ summary.kind = "GenericAdvice"

RECURSIVE SumEuros(_)
SumEuros(cs) == IF cs = <<>> THEN 0 ELSE Head(cs).euros + SumEuros(Tail(cs))

\* C6: for a non-empty row list with totalKm > 0, the rows' rounded amounts
\* sum to the total amount within 0.01 times the number of rows.
C6_ShareSum ==
    (Len(rows) >= 1 /\ totalKm > 0) =>
        Abs(SumEuros(computed) - amount) <= Len(rows)

\* three rows whose rounded amounts do not sum to the amount
C6_Witness ==
    /\ Len(rows) = 3
    /\ totalKm > 0
    /\ SumEuros(computed) # amount

\* C7: when an OCR call fails, whichever handler started it, loading is
\* cleared, rows stay as they were and the user is notified.
C7_FailureNotified ==
    [][\A o \in 1..Len(ops) :
          OcrRejected(o) =>
              /\ loading' = FALSE
              /\ rows' = rows
              /\ alert' = AlertOcrFailed]_vars

\* C8: when a parse yields no records, the user is asked to correct the
\* text exactly when the text is non-empty, after the parse button and
\* after a completed recognition alike.
C8_ZeroRecordsDistinguished ==
    [][/\ (ParseClick /\ Len(Parsed(ocrText)) = 0) =>
              (alert' = AlertNoRows <=> ocrText # <<>>)
       /\ \A o \in 1..Len(ops), t \in OcrTexts :
              (OcrRecognized(o, t) /\ Len(Parsed(t)) = 0) =>
                  (alert' = AlertNoRows <=> t # <<>>)]_vars

\* C9: every row's distance is a non-negative integer, so totalKm is never
\* negative.
C9_DistancesNonNegative ==
    /\ \A i \in 1..Len(rows) : rows[i].km \in Nat
    /\ totalKm >= 0

\* the awaits before data.text is there
BeforeText == {"load", "loadLanguage", "initialize", "recognize"}

\* the call is still waiting for the OCR provider's text
Recognizing(o) == ops[o].pc \in BeforeText

\* C10: loading is true while an OCR call is still running, and a call
\* writes rows only when no call started after it is still running.
C10_LoadingWhileInFlight ==
    [][/\ (\E o \in 1..Len(ops') : ops'[o].pc \in BeforeText) => loading'
       /\ \A o \in 1..Len(ops), t \in OcrTexts :
              (OcrRecognized(o, t) /\ rows' # rows) =>
                  \A q \in (o + 1)..Len(ops) : ~Recognizing(q)]_vars

====
